---------------------------- MODULE Spec2Model ----------------------------
(***************************************************************************)
(* Model of the checkins RAG pipeline (rag.py, data_handling.py).          *)
(*                                                                         *)
(* Strings are sequences of characters.  An ASCII character is the         *)
(* one-character TLA+ string that shows it; a non-ASCII character is named *)
(* by its code point ("U+00E9").  Python's None is the record NoneVal and  *)
(* a present string s is Some(s), so that None and "" stay distinct.       *)
(***************************************************************************)
EXTENDS Integers, Sequences, FiniteSets, TLC

VARIABLES
    pc,          \* which call is in progress / has returned
    question,    \* rag.py: the question string
    hits,        \* rag.py:47 the index response's "matches"
    q_emb,       \* rag.py:46 the query vector (NoVec when None)
    date_filter, \* rag.py:51 the value of extract_date_from_question
    reranked,    \* rag.py:53-71 the sorted (score, line) tuples, with the hit each came from
    context,     \* rag.py:73 the joined context string
    text,        \* data_handling.py:15 the argument of safe_id
    ident,       \* data_handling.py:15 the value safe_id returned
    checkins,    \* data_handling.py:143 the records handed to the upsert
    embedCount,  \* data_handling.py:163 how many vectors the embedder returns
    embedDim,    \* data_handling.py:163 the length of each vector it returns
    batch_size,  \* data_handling.py:145 the batch size of the upsert
    index,       \* the vector index: id -> stored item
    sent,        \* the lengths of the vectors handed to the index so far
    i,           \* data_handling.py:169 the batch loop's offset
    total,       \* data_handling.py:168 the running count
    result,      \* what the call gave its caller
    run,         \* how many upsert runs of the same records have ended
    firstRun,    \* the index and the result as the first run left them
    genCalls     \* rag.py:130 the calls made to generate_answer_from_context

vars == <<pc, question, hits, q_emb, date_filter, reranked, context, text, ident,
          checkins, embedCount, embedDim, batch_size, index, sent, i, total,
          result, run, firstRun, genCalls>>

planVars   == <<question, hits, q_emb, date_filter, reranked, context>>
idVars     == <<text, ident>>
ingestVars == <<checkins, embedCount, embedDim, batch_size, index, sent, i, total,
                run, firstRun>>

(***************************************************************************)
(* Characters and strings                                                  *)
(***************************************************************************)
Range(s) == {s[k] : k \in 1..Len(s)}

Uppers == <<"A","B","C","D","E","F","G","H","I","J","K","L","M",
            "N","O","P","Q","R","S","T","U","V","W","X","Y","Z">>
Lowers == <<"a","b","c","d","e","f","g","h","i","j","k","l","m",
            "n","o","p","q","r","s","t","u","v","w","x","y","z">>
Digits == <<"0","1","2","3","4","5","6","7","8","9">>

IndexOf(s, c) == CHOOSE k \in 1..Len(s) : s[k] = c

UpperSet == Range(Uppers)
LowerSet == Range(Lowers)
DigitSet == Range(Digits)
OtherChars == {"\n", " ", ",", "-", "/", ":", "?", "[", "]", "U+00E9", "U+20AC", "U+1F600"}
Chars == UpperSet \cup LowerSet \cup DigitSet \cup OtherChars

\* The code point of each character
OrdTable ==
    [c \in Chars |->
        CASE c \in UpperSet -> 64 + IndexOf(Uppers, c)
          [] c \in LowerSet -> 96 + IndexOf(Lowers, c)
          [] c \in DigitSet -> 47 + IndexOf(Digits, c)
          [] c = "\n" -> 10
          [] c = " " -> 32
          [] c = "," -> 44
          [] c = "-" -> 45
          [] c = "/" -> 47
          [] c = ":" -> 58
          [] c = "?" -> 63
          [] c = "[" -> 91
          [] c = "]" -> 93
          [] c = "U+00E9" -> 233
          [] c = "U+20AC" -> 8364
          [] c = "U+1F600" -> 128512]

\* Python's ord
Ord(c) == OrdTable[c]

IsDigit(c) == c \in DigitSet

\* str.lower() on each character: only A-Z change among the characters modelled
LowerTable ==
    [c \in Chars |-> IF c \in UpperSet THEN Lowers[IndexOf(Uppers, c)] ELSE c]

LowerChar(c) == LowerTable[c]

LowerStr(s) == [k \in 1..Len(s) |-> LowerChar(s[k])]

\* Python's  t in s  on strings.
Contains(s, t) ==
    \E k \in 1..(Len(s) - Len(t) + 1) : SubSeq(s, k, k + Len(t) - 1) = t

\* int(s) of a string of ASCII digits.
RECURSIVE StrToInt(_)
StrToInt(s) ==
    IF s = <<>> THEN 0
    ELSE 10 * StrToInt(SubSeq(s, 1, Len(s) - 1)) + (Ord(s[Len(s)]) - 48)

\* The decimal digits of n, zero-padded to at least w characters.
RECURSIVE Pad(_, _)
Pad(n, w) ==
    IF w <= 1 /\ n < 10 THEN <<Digits[n + 1]>>
    ELSE Pad(n \div 10, w - 1) \o <<Digits[(n % 10) + 1]>>

NoneVal == [some |-> FALSE, val |-> <<>>]
Some(s) == [some |-> TRUE, val |-> s]

\* Python's truth value of an optional string:  if x:
Truthy(x) == x.some /\ x.val # <<>>


(***************************************************************************)
(* rag.py: extract_date_from_question                                      *)
(***************************************************************************)
\* rag.py:17-20
month_names == <<
    <<"J","a","n","u","a","r","y">>,
    <<"F","e","b","r","u","a","r","y">>,
    <<"M","a","r","c","h">>,
    <<"A","p","r","i","l">>,
    <<"M","a","y">>,
    <<"J","u","n","e">>,
    <<"J","u","l","y">>,
    <<"A","u","g","u","s","t">>,
    <<"S","e","p","t","e","m","b","e","r">>,
    <<"O","c","t","o","b","e","r">>,
    <<"N","o","v","e","m","b","e","r">>,
    <<"D","e","c","e","m","b","e","r">>
>>

\* rag.py:22-24: the months, in list order, whose lowered name is in the lowered question
LoweredMonths == [k \in 1..Len(month_names) |-> LowerStr(month_names[k])]

MonthsIn(q) ==
    LET lq == LowerStr(q)
    IN  {k \in 1..Len(month_names) : Contains(lq, LoweredMonths[k])}

Min(S) == CHOOSE x \in S : \A y \in S : x <= y

\* rag.py:26: the places where 20\d{2} matches
YearMatchAt(s, k) ==
    /\ k + 3 <= Len(s)
    /\ s[k] = "2"
    /\ s[k + 1] = "0"
    /\ IsDigit(s[k + 2])
    /\ IsDigit(s[k + 3])

YearStarts(s) == {k \in 1..Len(s) : YearMatchAt(s, k)}

DigitsAt(s, k, n) == k + n - 1 <= Len(s) /\ \A j \in k..(k + n - 1) : IsDigit(s[j])

SepAt(s, k) == k <= Len(s) /\ s[k] \in {"/", "-"}

\* rag.py:30: (\d{1,2})[/-](\d{1,2})[/-](\d{4}) matches at k with a and b digits
DateMatchAt(s, k, a, b) ==
    /\ DigitsAt(s, k, a)
    /\ SepAt(s, k + a)
    /\ DigitsAt(s, k + a + 1, b)
    /\ SepAt(s, k + a + b + 1)
    /\ DigitsAt(s, k + a + b + 2, 4)

DateStarts(s) == {k \in 1..Len(s) : \E a, b \in {1, 2} : DateMatchAt(s, k, a, b)}

IsLeap(y) == y % 4 = 0 /\ (y % 100 # 0 \/ y % 400 = 0)

DaysIn(m, y) ==
    IF m = 2 THEN (IF IsLeap(y) THEN 29 ELSE 28)
    ELSE IF m \in {4, 6, 9, 11} THEN 30 ELSE 31

\* datetime.strftime('%B %d, %Y'): the year is not padded (glibc)
FormatDate(m, d, y) ==
    month_names[m] \o <<" ">> \o Pad(d, 2) \o <<",", " ">> \o Pad(y, 1)

\* rag.py:30-36: the leftmost match, parsed by strptime(group(0), '%m/%d/%Y');
\* a ValueError is swallowed and leaves None
ParseDateMatch(s) ==
    LET k  == Min(DateStarts(s))
        ab == CHOOSE p \in {1, 2} \X {1, 2} : DateMatchAt(s, k, p[1], p[2])
        a  == ab[1]
        b  == ab[2]
        m  == StrToInt(SubSeq(s, k, k + a - 1))
        d  == StrToInt(SubSeq(s, k + a + 1, k + a + b))
        y  == StrToInt(SubSeq(s, k + a + b + 2, k + a + b + 5))
    IN  IF /\ s[k + a] = "/"
           /\ s[k + a + b + 1] = "/"
           /\ m \in 1..12
           /\ y >= 1
           /\ d >= 1
           /\ d <= DaysIn(m, y)
        THEN Some(FormatDate(m, d, y))
        ELSE NoneVal

\* extract_date_from_question without its MM/DD/YYYY branch
extract_MonthOrYearOnly(q) ==
    LET months == MonthsIn(q)
        years  == YearStarts(q)
    IN  IF months # {} THEN Some(month_names[Min(months)])
        ELSE IF years # {} THEN Some(SubSeq(q, Min(years), Min(years) + 3))
        ELSE NoneVal

\* rag.py:14-37
extract_date_from_question(q) ==
    LET months == MonthsIn(q)
        years  == YearStarts(q)
    IN  IF months # {} THEN Some(month_names[Min(months)])
        ELSE IF years # {} THEN Some(SubSeq(q, Min(years), Min(years) + 3))
        ELSE IF DateStarts(q) # {} THEN ParseDateMatch(q)
        ELSE NoneVal

(***************************************************************************)
(* The questions the model asks: every concatenation of at most MaxFrags   *)
(* fragments, and the two questions the specification quotes.              *)
(***************************************************************************)
MaxFrags == 3

Frags == {
    <<"O","c","t","o","b","e","r">>,
    <<"O","C","T","O","B","E","R">>,
    <<"m","a","y">>,
    <<"2","0","2","5">>,
    <<"2","0","2","4">>,
    <<"1","9","9","9">>,
    <<"2","0">>,
    <<"1","2","/","2","5","/">>,
    <<"2","/","3","0","/">>,
    <<"1","3","/","1","/">>,
    <<"1","2","-","2","5","-">>,
    <<" ">>,
    <<"x">>,
    <<"1">>
}

RECURSIVE Concat(_)
Concat(ss) == IF ss = <<>> THEN <<>> ELSE Head(ss) \o Concat(Tail(ss))

QOctober2025 == <<"W","h","a","t"," ","d","i","d"," ","I"," ","d","o"," ","i","n"," ","O","c","t","o","b","e","r"," ","2","0","2","5","?">>

QWeek == <<"s","u","m","m","a","r","i","z","e"," ","m","y"," ","w","e","e","k">>

Questions ==
    {Concat(fs) : fs \in UNION {[1..n -> Frags] : n \in 0..MaxFrags}}
        \cup {QOctober2025, QWeek}


(***************************************************************************)
(* rag.py: cosine_similarity and build_context_from_query                  *)
(***************************************************************************)
\* None, or a list with no element: both are false in  if embedding
NoVec == <<>>

RECURSIVE Dot(_, _)
Dot(a, b) == IF a = <<>> THEN 0 ELSE a[1] * b[1] + Dot(Tail(a), Tail(b))

RECURSIVE GCD(_, _)
GCD(a, b) == IF b = 0 THEN a ELSE GCD(b, a % b)

Abs(x) == IF x < 0 THEN -x ELSE x

\* A score is kept as the exact fraction <<n, d>>, d > 0, in lowest terms, of
\* sign(c) * c^2 for the similarity c: the same order and the same ties as c.
Frac(n, d) == <<n \div GCD(Abs(n), d), d \div GCD(Abs(n), d)>>

Zero == Frac(0, 1)

\* rag.py:40-43  dot(a, b) / (norm(a) * norm(b)), for vectors that are not zero
cosine_similarity(a, b) ==
    LET d == Dot(a, b)
    IN  Frac((IF d < 0 THEN -1 ELSE 1) * d * d, Dot(a, a) * Dot(b, b))

ScoreLess(x, y) == x[1] * y[2] < y[1] * x[2]

\* Python's  s < t  on strings: by code point, a proper prefix first
RECURSIVE StrLess(_, _)
StrLess(s, t) ==
    IF s = <<>> THEN t # <<>>
    ELSE IF t = <<>> THEN FALSE
    ELSE IF s[1] = t[1] THEN StrLess(Tail(s), Tail(t))
    ELSE Ord(s[1]) < Ord(t[1])

\* Python's  x < y  on the tuples (score, line) that rag.py:62-69 appends
TupleLess(x, y) ==
    \/ ScoreLess(x.score, y.score)
    \/ x.score = y.score /\ StrLess(x.line, y.line)

\* list.sort(reverse=True): descending, and stable (equal tuples keep their order)
RECURSIVE SortDesc(_)
SortDesc(s) ==
    IF s = <<>> THEN <<>>
    ELSE LET done == SortDesc(SubSeq(s, 1, Len(s) - 1))
             x    == s[Len(s)]
             less == {k \in 1..Len(done) : TupleLess(done[k], x)}
             at   == IF less = {} THEN Len(done) + 1 ELSE Min(less)
         IN  SubSeq(done, 1, at - 1) \o <<x>> \o SubSeq(done, at, Len(done))

\* The sort without reverse=True
SortAscending(s) ==
    LET d == SortDesc(s) IN [k \in 1..Len(d) |-> d[Len(d) + 1 - k]]

\* rag.py:71
SortReranked(s) == SortDesc(s)

\* str(x) in an f-string
Str(x) == IF x.some THEN x.val ELSE <<"N","o","n","e">>

\* rag.py:56  meta.get("checkin") or meta.get("text") or h.get("id")
Display(h) ==
    IF Truthy(h.checkin) THEN h.checkin
    ELSE IF Truthy(h.mtext) THEN h.mtext
    ELSE h.id

\* rag.py:61, 65
RankScore(q, h) ==
    IF h.values # NoVec /\ q # NoVec THEN cosine_similarity(q, h.values) ELSE Zero

\* rag.py:62, 67  f"[{timestamp}] {checkin}"
StampedLine(h) == <<"[">> \o h.timestamp \o <<"]", " ">> \o Str(Display(h))

\* rag.py:59-60: whether a hit passes the date filter
PassesFilter(df, h) == Contains(h.timestamp, df.val)

\* rag.py:55-69: what one hit appends to reranked; src is the hit's place in the
\* response, kept to tell which hit a line came from
Candidates(h, k, df, q) ==
    IF Truthy(df)
    THEN IF PassesFilter(df, h)
         THEN <<[score |-> RankScore(q, h), line |-> StampedLine(h), src |-> k]>>
         ELSE <<>>
    ELSE IF Truthy(Display(h))
         THEN IF h.timestamp # <<>>
              THEN <<[score |-> RankScore(q, h), line |-> StampedLine(h), src |-> k]>>
              ELSE <<[score |-> RankScore(q, h), line |-> Display(h).val, src |-> k]>>
         ELSE <<>>

\* rag.py:50-51
DateFilterOf(q) == IF q # <<>> THEN extract_date_from_question(q) ELSE NoneVal

\* rag.py:54-69
RECURSIVE Collect(_, _, _, _)
Collect(hs, k, df, q) ==
    IF k > Len(hs) THEN <<>>
    ELSE Candidates(hs[k], k, df, q) \o Collect(hs, k + 1, df, q)

\* rag.py:46-71
Reranked(hs, question_, q) == SortReranked(Collect(hs, 1, DateFilterOf(question_), q))

\* rag.py:73  "\n---\n".join(parts)
Separator == <<"\n","-","-","-","\n">>

RECURSIVE Join(_)
Join(parts) ==
    IF parts = <<>> THEN <<>>
    ELSE IF Len(parts) = 1 THEN parts[1]
    ELSE parts[1] \o Separator \o Join(Tail(parts))

\* rag.py:72
Parts(r) == [k \in 1..Len(r) |-> r[k].line]

\* rag.py:72-73
ContextOf(r) == Join(Parts(r))

(***************************************************************************)
(* data_handling.py:175-176: the month and year stored with a record       *)
(***************************************************************************)
SpaceAt(s) == {k \in 1..Len(s) : s[k] = " "}

\* formatted_ts.split(" ")[0] if formatted_ts else ""
MetaMonth(ts) ==
    IF SpaceAt(ts) = {} THEN ts ELSE SubSeq(ts, 1, Min(SpaceAt(ts)) - 1)

Max(S) == CHOOSE x \in S : \A y \in S : x >= y

\* formatted_ts.split(" ")[-1] if formatted_ts else ""
MetaYear(ts) ==
    IF SpaceAt(ts) = {} THEN ts ELSE SubSeq(ts, Max(SpaceAt(ts)) + 1, Len(ts))

(***************************************************************************)
(* The matches the index returns to build_context_from_query: lists of at  *)
(* most MaxHits hits from a pool.  A hit carries the metadata the upsert   *)
(* stored, its vector when values were asked for, and the index's score.   *)
(***************************************************************************)
MaxHits == 3

TsOct2025 == <<"O","c","t","o","b","e","r"," ","0","1",","," ","2","0","2","5">>

TsOct2024 == <<"O","c","t","o","b","e","r"," ","0","1",","," ","2","0","2","4">>

TsMay2025 == <<"M","a","y"," ","0","5",","," ","2","0","2","5">>

TsDec1999 == <<"D","e","c","e","m","b","e","r"," ","2","5",","," ","1","9","9","9">>

Hit(id_, checkin_, ts, values_, score_) ==
    [id |-> id_, checkin |-> checkin_, mtext |-> NoneVal, timestamp |-> ts,
     month |-> MetaMonth(ts), year |-> MetaYear(ts), values |-> values_,
     score |-> score_]

NoScore == [some |-> FALSE, val |-> Zero]
IndexScore(n, d) == [some |-> TRUE, val |-> Frac(n * n, d * d)]

HitPool == {
    Hit(Some(<<"i","1">>), Some(<<"a">>), TsOct2025, NoVec, IndexScore(9, 10)),
    Hit(Some(<<"i","2">>), Some(<<"b">>), TsOct2025, NoVec, IndexScore(2, 10)),
    Hit(Some(<<"i","3">>), Some(<<"c">>), TsOct2024, <<1, 0>>, NoScore),
    Hit(Some(<<"i","4">>), Some(<<"d">>), TsMay2025, <<0, 1>>, IndexScore(5, 10)),
    Hit(Some(<<"i","5">>), Some(<<"a">>), <<>>, <<2, 1>>, NoScore),
    Hit(NoneVal, NoneVal, TsDec1999, NoVec, NoScore),
    Hit(Some(<<"i","7">>), NoneVal, TsOct2024, NoVec, IndexScore(2, 10)),
    Hit(Some(<<"i","8">>), Some(<<"b">>), <<>>, <<1, 0>>, NoScore)
}

HitLists == UNION {[1..n -> HitPool] : n \in 0..MaxHits}

QVecs == {NoVec, <<2, 1>>}

\* The empty question stands for a call without one (flask_app.py:167)
AssembleQuestions == {
    <<>>, QOctober2025, QWeek,
    <<"i","n"," ","2","0","2","5">>,
    <<"i","n"," ","2","0","2","4">>,
    <<"m","a","y","b","e">>,
    <<"1","2","/","2","5","/","1","9","9","9">>,
    <<"1","2","-","2","5","-","1","9","9","9">>,
    <<"2","/","3","0","/","1","9","9","9">>
}


(***************************************************************************)
(* data_handling.py: safe_id                                               *)
(***************************************************************************)
\* data_handling.py:22
IdLimit == 512

IsAsciiChar(c) == Ord(c) < 128

\* data_handling.py:19  text.encode("ascii", "ignore").decode("ascii")
AsciiOnly(s) == SelectSeq(s, IsAsciiChar)

HexDigits == <<"0","1","2","3","4","5","6","7","8","9","a","b","c","d","e","f">>

\* One byte as its two hex characters
HexByte(b) == <<HexDigits[(b \div 16) + 1], HexDigits[(b % 16) + 1]>>

\* The UTF-8 bytes of one character, in hex
Utf8Char(c) ==
    LET n == Ord(c)
    IN  IF n < 128 THEN HexByte(n)
        ELSE IF n < 2048
             THEN HexByte(192 + (n \div 64)) \o HexByte(128 + (n % 64))
        ELSE IF n < 65536
             THEN HexByte(224 + (n \div 4096)) \o HexByte(128 + ((n \div 64) % 64))
                      \o HexByte(128 + (n % 64))
        ELSE HexByte(240 + (n \div 262144)) \o HexByte(128 + ((n \div 4096) % 64))
                 \o HexByte(128 + ((n \div 64) % 64)) \o HexByte(128 + (n % 64))

\* data_handling.py:23  text.encode("utf-8"), in hex
RECURSIVE Utf8(_)
Utf8(s) ==
    IF s = <<>> THEN <<>>
    ELSE IF Len(s) = 1 THEN Utf8Char(s[1])
    ELSE Utf8(SubSeq(s, 1, Len(s) \div 2)) \o Utf8(SubSeq(s, (Len(s) \div 2) + 1, Len(s)))

\* hashlib.sha256(bytes).hexdigest(): the digest is not computed; it stands as
\* the value tagged "sha256" that is determined by the bytes hashed.  An
\* identifier that is the text itself is tagged "text".
Sha256Hex(bytes) == [kind |-> "sha256", of |-> bytes]
PlainId(s) == [kind |-> "text", of |-> s]

\* len() of an identifier: a hexdigest has 64 characters
IdLen(x) == IF x.kind = "sha256" THEN 64 ELSE Len(x.of)

\* safe_id with the length test off by one
safe_id_OffByOne(t) ==
    LET ascii_text == AsciiOnly(t)
    IN  IF Len(ascii_text) >= IdLimit \/ ascii_text # t
        THEN Sha256Hex(Utf8(t))
        ELSE PlainId(ascii_text)

\* data_handling.py:15-24
safe_id(t) ==
    LET ascii_text == AsciiOnly(t)
    IN  IF Len(ascii_text) > IdLimit \/ ascii_text # t
        THEN Sha256Hex(Utf8(t))
        ELSE PlainId(ascii_text)

(***************************************************************************)
(* The texts safe_id is applied to: every string of at most MaxTextLen     *)
(* characters over TextChars, and strings of "a" of the lengths around     *)
(* IdLimit, plain or with one non-ASCII character at either end.           *)
(***************************************************************************)
MaxTextLen == 3

TextChars == {"a", ":", "U+00E9", "U+1F600"}

NonAscii == {"U+00E9", "U+20AC", "U+1F600"}

LongLens == (IdLimit - 2)..(IdLimit + 2)

Texts ==
    UNION {[1..n -> TextChars] : n \in 0..MaxTextLen}
        \cup {[k \in 1..n |-> "a"] : n \in LongLens}
        \cup {[k \in 1..n |-> IF k = 1 THEN c ELSE "a"] : n \in LongLens, c \in NonAscii}
        \cup {[k \in 1..n |-> IF k = n THEN c ELSE "a"] : n \in LongLens, c \in NonAscii}


(***************************************************************************)
(* data_handling.py: _format_timestamp                                     *)
(***************************************************************************)
NotZ(c) == c # "Z"

\* data_handling.py:76  raw_ts.replace("Z", "").replace("T", " ")
Cleaned(raw) ==
    LET noZ == SelectSeq(raw, NotZ)
    IN  [k \in 1..Len(noZ) |-> IF noZ[k] = "T" THEN " " ELSE noZ[k]]

\* HH:MM or HH:MM:SS
IsIsoTime(t) ==
    /\ Len(t) \in {5, 8}
    /\ DigitsAt(t, 1, 2) /\ t[3] = ":" /\ DigitsAt(t, 4, 2)
    /\ StrToInt(SubSeq(t, 1, 2)) < 24
    /\ StrToInt(SubSeq(t, 4, 5)) < 60
    /\ Len(t) = 8 => (t[6] = ":" /\ DigitsAt(t, 7, 2) /\ StrToInt(SubSeq(t, 7, 8)) < 60)

\* datetime.fromisoformat accepts s; the shapes modelled are YYYY-MM-DD alone
\* or followed by one separator and HH:MM[:SS]
IsIsoDateTime(s) ==
    /\ Len(s) >= 10
    /\ DigitsAt(s, 1, 4) /\ s[5] = "-" /\ DigitsAt(s, 6, 2) /\ s[8] = "-"
    /\ DigitsAt(s, 9, 2)
    /\ StrToInt(SubSeq(s, 1, 4)) >= 1
    /\ StrToInt(SubSeq(s, 6, 7)) \in 1..12
    /\ StrToInt(SubSeq(s, 9, 10)) >= 1
    /\ StrToInt(SubSeq(s, 9, 10))
           <= DaysIn(StrToInt(SubSeq(s, 6, 7)), StrToInt(SubSeq(s, 1, 4)))
    /\ Len(s) > 10 => IsIsoTime(SubSeq(s, 12, Len(s)))

\* data_handling.py:71-79
format_timestamp(raw) ==
    IF raw = <<>> THEN raw
    ELSE LET s == Cleaned(raw)
         IN  IF IsIsoDateTime(s)
             THEN FormatDate(StrToInt(SubSeq(s, 6, 7)), StrToInt(SubSeq(s, 9, 10)),
                             StrToInt(SubSeq(s, 1, 4)))
             ELSE raw

(***************************************************************************)
(* data_handling.py: upsert_checkins_to_pinecone_http (the gRPC variant,   *)
(* lines 86-137, has the same loop with index.upsert for the POST)         *)
(***************************************************************************)
\* data_handling.py:174  f"{formatted_ts}: {checkin_text}"
FullText(formatted_ts, checkin_text) == formatted_ts \o <<":", " ">> \o checkin_text

\* data_handling.py:172-187: the item built for record c and its vector
Item(c, vec) ==
    LET formatted_ts == format_timestamp(c.timestamp)
        full         == FullText(formatted_ts, c.checkin)
    IN  [id |-> safe_id(full),
         values |-> vec,
         metadata |-> [checkin |-> c.checkin,
                       timestamp |-> formatted_ts,
                       month |-> MetaMonth(formatted_ts),
                       year |-> MetaYear(formatted_ts),
                       full |-> full]]

\* data_handling.py:160, 163: the k-th vector the embedder returns; it is
\* a function of the text it embeds, and has the length the embedder gives it
Vector(cs, k, dim) ==
    [of |-> IF k <= Len(cs) THEN cs[k].checkin ELSE <<"?">>, dim |-> dim]

\* data_handling.py:171: the 1-based places of the vectors of the batch at offset off
BatchPlaces(off, bs, count) ==
    (off + 1)..(IF off + bs < count THEN off + bs ELSE count)

\* data_handling.py:172: checkins[j] raises IndexError for a vector without a record
BatchRaises(cs, off, bs, count) == \E j \in BatchPlaces(off, bs, count) : j > Len(cs)

\* data_handling.py:170-187
Batch(cs, off, bs, count, dim) ==
    [k \in 1..Cardinality(BatchPlaces(off, bs, count)) |->
        Item(cs[off + k], Vector(cs, off + k, dim))]

\* The index's upsert: an item replaces the stored item of the same id; of two
\* items of one batch with the same id the later one stays
IndexUpsert(idx, batch) ==
    {it \in idx : \A k \in 1..Len(batch) : batch[k].id # it.id}
        \cup {batch[k] : k \in {j \in 1..Len(batch) :
                                   \A l \in (j + 1)..Len(batch) : batch[l].id # batch[j].id}}

\* The count that skips the records the index already holds
CountAfter_SkipStored(tot, batch, idx) ==
    tot + Cardinality({k \in 1..Len(batch) : \A it \in idx : it.id # batch[k].id})

\* data_handling.py:190
CountAfter(tot, batch, idx) == tot + Len(batch)

Ids(idx) == {it.id : it \in idx}

NoResult == [kind |-> "none", upserted |-> {}, error |-> ""]
Returned(n) == [kind |-> "return", upserted |-> {n}, error |-> ""]
Raised(e) == [kind |-> "raise", upserted |-> {}, error |-> e]

(***************************************************************************)
(* The records, embedder answers and index states of the upsert            *)
(***************************************************************************)
MaxRecords == 3
MaxBatchSize == 2
MaxRuns == 2

\* rag.py:123, data_handling.py:61
embedding_dim == 384

RawOct == <<"2","0","2","5","-","1","0","-","0","1","T","0","9",":","0","0",":","0","0">>

RecordPool == {
    [timestamp |-> RawOct, checkin |-> <<"a">>],
    [timestamp |-> <<>>, checkin |-> <<"a">>],
    [timestamp |-> <<>>, checkin |-> <<"U+00E9">>]
}

RecordLists == UNION {[1..n -> RecordPool] : n \in 0..MaxRecords}

EmbedDims == {embedding_dim - 1, embedding_dim, embedding_dim + 1}

\* An index that already holds the first pool record under an older vector,
\* and a record of its own
OldIndex == {
    Item([timestamp |-> RawOct, checkin |-> <<"a">>],
         [of |-> <<"o","l","d">>, dim |-> embedding_dim]),
    Item([timestamp |-> <<>>, checkin |-> <<"x">>],
         [of |-> <<"x">>, dim |-> embedding_dim])
}

InitialIndexes == {{}, OldIndex}


(***************************************************************************)
(* rag.py: rag_answer                                                      *)
(***************************************************************************)
\* data_handling.py:54  def _openai_embeddings(texts, openai_api_key)
OpenaiEmbeddingsParams == <<"texts", "openai_api_key">>

\* data_handling.py:195-206  def query_pinecone_by_vector(vector, topK, ...)
QueryParams == <<"vector", "topK", "pinecone_api_url", "pinecone_api_key",
                 "grpc_api_key", "index_host", "namespace", "include_values",
                 "include_metadata", "filter">>

\* Python's call binding: a call with npos positional arguments and the keyword
\* arguments kws raises TypeError when a keyword names no parameter, or names
\* one a positional argument already fills, or the positionals are too many
BindRaises(params, npos, kws) ==
    \/ npos > Len(params)
    \/ \E k \in kws : k \notin Range(params)
    \/ \E k \in kws : \E n \in 1..npos : n <= Len(params) /\ params[n] = k

\* rag.py:124  _openai_embeddings([question], openai_api_key, model=embedding_model)
EmbedCallRaises == BindRaises(OpenaiEmbeddingsParams, 2, {"model"})

\* rag.py:128  query_pinecone_by_vector(url, key, q_emb, topK=topK)
QueryCallRaises == BindRaises(QueryParams, 3, {"topK"})

\* rag.py:126-127
Trimmed(v) == IF Len(v) > embedding_dim THEN SubSeq(v, 1, embedding_dim) ELSE v

(***************************************************************************)
(* Actions                                                                 *)
(***************************************************************************)
\* rag.py:14-37, called on its own
Plan ==
    /\ pc = "plan_ready"
    /\ date_filter' = extract_date_from_question(question)
    /\ pc' = "plan_done"
    /\ UNCHANGED <<question, hits, q_emb, reranked, context>>
    /\ UNCHANGED <<idVars, ingestVars, result, genCalls>>

\* rag.py:46-73
Assemble ==
    /\ pc = "assemble_ready"
    /\ date_filter' = DateFilterOf(question)
    /\ reranked' = Reranked(hits, question, q_emb)
    /\ context' = ContextOf(reranked')
    /\ pc' = "assemble_done"
    /\ UNCHANGED <<question, hits, q_emb>>
    /\ UNCHANGED <<idVars, ingestVars, result, genCalls>>

\* data_handling.py:15-24
Identify ==
    /\ pc = "id_ready"
    /\ ident' = safe_id(text)
    /\ pc' = "id_done"
    /\ UNCHANGED <<text, planVars, ingestVars, result, genCalls>>

\* rag.py:113-131.  q_emb holds the vector the embedder gives for the question
\* and hits the matches the index gives for it.
Ask ==
    /\ pc = "ask_ready"
    /\ pc' = "ask_done"
    /\ IF EmbedCallRaises \/ QueryCallRaises
       THEN /\ result' = Raised("TypeError")
            /\ UNCHANGED <<q_emb, date_filter, reranked, context, sent, genCalls>>
       ELSE /\ q_emb' = Trimmed(q_emb)
            /\ sent' = sent \cup {Len(q_emb')}
            /\ date_filter' = DateFilterOf(question)
            /\ reranked' = Reranked(hits, question, q_emb')
            /\ context' = ContextOf(reranked')
            /\ genCalls' = Append(genCalls, [question |-> question, context |-> context'])
            /\ result' = Returned(0)
    /\ UNCHANGED <<question, hits, idVars>>
    /\ UNCHANGED <<checkins, embedCount, embedDim, batch_size, index, i, total,
                   run, firstRun>>

\* The end of an upsert run: the first run's outcome is kept for comparison
EndRun(res, idx) ==
    /\ result' = res
    /\ pc' = "upsert_ended"
    /\ run' = run + 1
    /\ firstRun' = IF run = 0 THEN [index |-> idx, result |-> res] ELSE firstRun

\* data_handling.py:148-168; a run of the same records may follow an ended one.
\* Both API keys are set (lines 150-153 raise ValueError otherwise) and the
\* embedder answers with embedCount vectors of embedDim entries.
UpsertStart ==
    /\ pc \in {"upsert_ready", "upsert_ended"}
    /\ run < MaxRuns
    /\ IF checkins = <<>>
       THEN /\ EndRun(Returned(0), index)
            /\ UNCHANGED <<i, total>>
       ELSE /\ pc' = "upsert_loop"
            /\ i' = 0
            /\ total' = 0
            /\ result' = NoResult
            /\ UNCHANGED <<run, firstRun>>
    /\ UNCHANGED <<checkins, embedCount, embedDim, batch_size, index, sent>>
    /\ UNCHANGED <<planVars, idVars, genCalls>>

\* data_handling.py:169-190: one turn of the batch loop
UpsertBatch ==
    /\ pc = "upsert_loop"
    /\ i < embedCount
    /\ IF BatchRaises(checkins, i, batch_size, embedCount)
       THEN /\ EndRun(Raised("IndexError"), index)
            /\ UNCHANGED <<index, sent, i, total>>
       ELSE LET batch == Batch(checkins, i, batch_size, embedCount, embedDim)
            IN  \/ /\ index' = IndexUpsert(index, batch)
                   /\ sent' = sent \cup {batch[k].values.dim : k \in 1..Len(batch)}
                   /\ total' = CountAfter(total, batch, index)
                   /\ i' = i + batch_size
                   /\ UNCHANGED <<pc, result, run, firstRun>>
                \/ /\ EndRun(Raised("HTTPError"), index)
                   /\ UNCHANGED <<index, sent, i, total>>
    /\ UNCHANGED <<checkins, embedCount, embedDim, batch_size>>
    /\ UNCHANGED <<planVars, idVars, genCalls>>

\* data_handling.py:192
UpsertReturn ==
    /\ pc = "upsert_loop"
    /\ i >= embedCount
    /\ EndRun(Returned(total), index)
    /\ UNCHANGED <<checkins, embedCount, embedDim, batch_size, index, sent, i, total>>
    /\ UNCHANGED <<planVars, idVars, genCalls>>

(***************************************************************************)
(* Specifications                                                          *)
(***************************************************************************)
IdlePlan ==
    /\ question = <<>> /\ hits = <<>> /\ q_emb = NoVec /\ date_filter = NoneVal
    /\ reranked = <<>> /\ context = <<>>

IdleId == text = <<>> /\ ident = PlainId(<<>>)

IdleIngest ==
    /\ checkins = <<>> /\ embedCount = 0 /\ embedDim = embedding_dim
    /\ batch_size = 1 /\ index = {} /\ sent = {} /\ i = 0 /\ total = 0
    /\ run = 0 /\ firstRun = [index |-> {}, result |-> NoResult]

InitPlan ==
    /\ pc = "plan_ready"
    /\ question \in Questions
    /\ hits = <<>> /\ q_emb = NoVec /\ date_filter = NoneVal
    /\ reranked = <<>> /\ context = <<>>
    /\ IdleId /\ IdleIngest /\ result = NoResult /\ genCalls = <<>>

InitAssemble ==
    /\ pc = "assemble_ready"
    /\ question \in AssembleQuestions
    /\ hits \in HitLists
    /\ q_emb \in QVecs
    /\ date_filter = NoneVal /\ reranked = <<>> /\ context = <<>>
    /\ IdleId /\ IdleIngest /\ result = NoResult /\ genCalls = <<>>

InitId ==
    /\ pc = "id_ready"
    /\ text \in Texts
    /\ ident = PlainId(<<>>)
    /\ IdlePlan /\ IdleIngest /\ result = NoResult /\ genCalls = <<>>

InitAsk ==
    /\ pc = "ask_ready"
    /\ question \in AssembleQuestions \ {<<>>}
    /\ hits \in HitLists
    /\ q_emb \in QVecs \ {NoVec}
    /\ date_filter = NoneVal /\ reranked = <<>> /\ context = <<>>
    /\ IdleId /\ IdleIngest /\ result = NoResult /\ genCalls = <<>>

InitIngest ==
    /\ pc = "upsert_ready"
    /\ checkins \in RecordLists
    /\ embedCount \in 0..(Len(checkins) + 1)
    /\ embedDim \in EmbedDims
    /\ batch_size \in 1..MaxBatchSize
    /\ index \in InitialIndexes
    /\ sent = {} /\ i = 0 /\ total = 0 /\ run = 0
    /\ firstRun = [index |-> {}, result |-> NoResult]
    /\ IdlePlan /\ IdleId /\ result = NoResult /\ genCalls = <<>>

NextPlan == Plan
NextAssemble == Assemble
NextId == Identify
NextAsk == Ask
NextIngest == UpsertStart \/ UpsertBatch \/ UpsertReturn

SpecPlan == InitPlan /\ [][NextPlan]_vars
SpecAssemble == InitAssemble /\ [][NextAssemble]_vars
SpecId == InitId /\ [][NextId]_vars
SpecAsk == InitAsk /\ [][NextAsk]_vars
SpecIngest == InitIngest /\ [][NextIngest]_vars

Init == InitPlan \/ InitAssemble \/ InitId \/ InitAsk \/ InitIngest
Next == Plan \/ Assemble \/ Identify \/ Ask \/ UpsertStart \/ UpsertBatch \/ UpsertReturn
Spec == Init /\ [][Next]_vars


(***************************************************************************)
(* Properties                                                              *)
(***************************************************************************)
\* The month a question names and the 20dd year it contains
MonthNamed(q) ==
    IF MonthsIn(q) # {} THEN Some(month_names[Min(MonthsIn(q))]) ELSE NoneVal

YearNamed(q) ==
    IF YearStarts(q) # {}
    THEN Some(SubSeq(q, Min(YearStarts(q)), Min(YearStarts(q)) + 3))
    ELSE NoneVal

\* The month and the year that a value of extract_date_from_question restricts
FilterMonth(df) ==
    IF df.some /\ df.val \in Range(month_names) THEN df ELSE NoneVal

FilterYear(df) ==
    IF df.some /\ Len(df.val) = 4 /\ YearMatchAt(df.val, 1) THEN df ELSE NoneVal

\* C1: every line of the context comes from a match whose month equals the
\* month the question names and whose year equals the 20dd year the question
\* contains, for each of the two that the question sets.
C1_LinesMatchEveryField ==
    pc = "assemble_done" =>
        \A k \in 1..Len(reranked) :
            LET h == hits[reranked[k].src]
            IN  /\ MonthNamed(question).some => h.month = MonthNamed(question).val
                /\ YearNamed(question).some => h.year = YearNamed(question).val

\* C2: for a question with both a month name and a 20dd token, the filter has
\* month set to the capitalized month name and year set to the token.
C2_MonthAndYearBothSet ==
    (pc = "plan_done" /\ MonthNamed(question).some /\ YearNamed(question).some) =>
        /\ FilterMonth(date_filter) = MonthNamed(question)
        /\ FilterYear(date_filter) = YearNamed(question)

\* C3: the lines of the context are in non-increasing order of the ranking
\* score of the match each line came from.
C3_ScoresDescending ==
    pc = "assemble_done" =>
        \A k \in 1..(Len(reranked) - 1) :
            ~ScoreLess(RankScore(q_emb, hits[reranked[k].src]),
                       RankScore(q_emb, hits[reranked[k + 1].src]))

\* C3 witness: three matches that came in strictly increasing score order, assembled
C3_Witness ==
    /\ pc = "assemble_done"
    /\ Len(reranked) = 3
    /\ reranked[1].src = 3 /\ reranked[2].src = 2 /\ reranked[3].src = 1
    /\ ScoreLess(reranked[3].score, reranked[2].score)
    /\ ScoreLess(reranked[2].score, reranked[1].score)

\* C4: two matches with equal ranking score are in the context in the order
\* they had in the index's match list.
C4_TiesKeepIndexOrder ==
    pc = "assemble_done" =>
        \A k, l \in 1..Len(reranked) :
            (k < l /\ RankScore(q_emb, hits[reranked[k].src])
                          = RankScore(q_emb, hits[reranked[l].src]))
                => reranked[k].src < reranked[l].src

\* C5: safe_id returns its input when the input is ASCII and at most 512
\* characters long, and the 64-character SHA-256 hex digest of the input's
\* UTF-8 bytes for every other input.
C5_SafeId ==
    pc = "id_done" =>
        IF (\A k \in 1..Len(text) : Ord(text[k]) < 128) /\ Len(text) <= 512
        THEN ident = PlainId(text)
        ELSE ident = Sha256Hex(Utf8(text)) /\ IdLen(ident) = 64

\* C5 witness: an ASCII text one character over the limit was hashed
C5_Witness ==
    /\ pc = "id_done"
    /\ Len(text) = 513
    /\ \A k \in 1..Len(text) : Ord(text[k]) < 128
    /\ ident.kind = "sha256"

\* C6: a second upsert run of the same records that returns, after a first
\* that returned, leaves the same identifiers and as many stored vectors as
\* the first left, and reports the same upserted count.
C6_SecondRunSame ==
    (pc = "upsert_ended" /\ run >= 2 /\ firstRun.result.kind = "return"
        /\ result.kind = "return") =>
        /\ Ids(index) = Ids(firstRun.index)
        /\ Cardinality(index) = Cardinality(firstRun.index)
        /\ result.upserted = firstRun.result.upserted

\* C6 witness: two runs over several batches, on an index that held a record before
C6_Witness ==
    /\ pc = "upsert_ended" /\ run = 2
    /\ firstRun.result.kind = "return" /\ result.kind = "return"
    /\ Len(checkins) >= 2 /\ batch_size < Len(checkins)
    /\ result.upserted = {Len(checkins)}
    /\ \E it \in index : it.values.of = <<"x">>
    /\ \A it \in index : it.values.of # <<"o","l","d">>

\* C7: when a batch's upsert fails, the batches upserted before it stay stored
\* and the count the run reports equals the number of records in them.
C7_FailureReportsCompleted ==
    (pc = "upsert_ended" /\ result.kind = "raise" /\ result.error = "HTTPError") =>
        /\ \A j \in 1..i : safe_id(FullText(format_timestamp(checkins[j].timestamp),
                                             checkins[j].checkin)) \in Ids(index)
        /\ result.upserted = {i}

\* C8: every vector handed to the index has length embedding_dim.
C8_OnlyVectorsOfLengthD == \A d \in sent : d = embedding_dim

\* C9: when the question's filter matches none of the returned matches, the
\* context is empty and the answer generator is called once, with the question
\* and the empty context.
C9_GeneratorCalledOnEmptyContext ==
    (/\ pc = "ask_done"
     /\ Truthy(DateFilterOf(question))
     /\ \A k \in 1..Len(hits) : ~PassesFilter(DateFilterOf(question), hits[k])) =>
        /\ context = <<>>
        /\ genCalls = <<[question |-> question, context |-> <<>>]>>

\* Every match with display text has a line in the context
AllWithTextIncluded ==
    \A k \in 1..Len(hits) :
        Truthy(Display(hits[k])) => \E n \in 1..Len(reranked) : reranked[n].src = k

\* C10 as stated: a question with no month name and no 20dd token gets no
\* filter, and every match with display text is in the context.
C10_NoMonthNoYearNoFilter ==
    (pc = "assemble_done" /\ ~MonthNamed(question).some /\ ~YearNamed(question).some) =>
        /\ ~Truthy(date_filter)
        /\ AllWithTextIncluded

\* The first M/D/YYYY or M-D-YYYY in the question is a calendar date written
\* with slashes
SlashDateNamed(q) == DateStarts(q) # {} /\ ParseDateMatch(q).some

\* C10 amended: a question gets a filter exactly when it has a month name, a
\* 20dd token or, first among its numeric dates, a calendar date M/D/YYYY
\* written with slashes; without a filter every match with display text is in
\* the context.
C10_FilterOnlyFromMonthYearDate ==
    pc = "assemble_done" =>
        /\ Truthy(date_filter) <=>
               (MonthNamed(question).some \/ YearNamed(question).some
                    \/ SlashDateNamed(question))
        /\ ~Truthy(date_filter) => AllWithTextIncluded

\* C10 witness: a question without any of the three, and matches of which one
\* has no display text
C10_Witness ==
    /\ pc = "assemble_done"
    /\ question # <<>>
    /\ DateStarts(question) # {}
    /\ ~Truthy(date_filter)
    /\ Len(hits) = 3
    /\ Len(reranked) = 2

\* The score of a match by the precedence index score, local cosine, zero
ScoreByPrecedence(q, h) ==
    IF h.score.some THEN h.score.val
    ELSE IF h.values # NoVec /\ q # NoVec THEN cosine_similarity(q, h.values)
    ELSE Zero

\* C11: every line of the context was ranked by the index's score when its
\* match carries one, else by the cosine similarity of the match's vector and
\* the query vector, else by zero.
C11_IndexScoreFirst ==
    pc = "assemble_done" =>
        \A k \in 1..Len(reranked) :
            reranked[k].score = ScoreByPrecedence(q_emb, hits[reranked[k].src])

\* The canonical text of a record: the formatted timestamp, ": " and the text
\* when the record has a timestamp, the text alone when it has none
CanonicalText(c) ==
    IF c.timestamp # <<>>
    THEN format_timestamp(c.timestamp) \o <<":", " ">> \o c.checkin
    ELSE c.checkin

\* The places of the records whose batches the current run has upserted
Upserted == 1..(IF i < embedCount THEN i ELSE embedCount)

\* C12: every record the run has upserted is stored under the identifier of
\* its canonical text, with that canonical text as its full metadata.
C12_CanonicalTextStored ==
    pc \in {"upsert_loop", "upsert_ended"} =>
        \A j \in Upserted :
            \E it \in index :
                /\ it.metadata.checkin = checkins[j].checkin
                /\ it.metadata.timestamp = format_timestamp(checkins[j].timestamp)
                /\ it.metadata.full = CanonicalText(checkins[j])
                /\ it.id = safe_id(CanonicalText(checkins[j]))

\* C13: a run whose embedder returned a number of vectors other than the
\* number of records ends with an error and without an upserted count.
C13_WrongCountRaises ==
    (pc = "upsert_ended" /\ checkins # <<>> /\ embedCount # Len(checkins)) =>
        /\ result.kind = "raise"
        /\ result.upserted = {}

============================================================================
